---- MODULE Spec2Model ----
(***************************************************************************)
(* The tool-calling orchestration loops of the MongoDB MCP bridge:         *)
(* MCPOpenAIClient.process_query (src/openai_client.py) and                *)
(* MCPGoogleClient.process_query (src/google_client.py), with the tool     *)
(* host and the model provider as nondeterministic peers; around them      *)
(* main and chat_loop of the two clients (SpecMain), the adapter of the    *)
(* tool catalog (SpecCatalog) and the tools of src/server.py with MongoDB  *)
(* as a peer (SpecServer).                                                 *)
(*                                                                         *)
(* Strings are sequences of tokens, so that concatenation (content +=      *)
(* text + "\n", f"Error executing tool: {e}") is computed, not assumed.    *)
(***************************************************************************)
EXTENDS Integers, Sequences, FiniteSets, TLC

\* ------------------------------------------------------------------ bounds
\* max_iterations ranges over 0..MaxIter
MaxIter == 2
\* most tool invocations the model requests during one process_query
MaxToolCalls == 2
\* most parts of one Gemini response
MaxParts == 2
\* most tool invocations the model requests during one query of a session
MaxSessionToolCalls == 1

\* process_query(self, query, max_iterations = 5), as chat_loop calls it
DefaultMaxIterations == 5

\* ------------------------------------------------------------ input domains
Texts == {<<"a">>}
\* message.content of an OpenAI response that carries no text (None)
NoContent == <<"None">>
Queries == {<<"q">>}
ToolNames == {"get_mongodb_collections", "execute_mongodb_query"}
\* textual argument payloads: a JSON object, and a payload that is not JSON
JsonTexts == {"{}", "{"}

VARIABLES
    provider,           \* "openai" | "gemini": which client runs
    pc,                 \* "idle" | "loop" | "tools" | "await" | "done"
    max_iterations,     \* process_query's parameter
    iteration_count,    \* process_query's local
    messages,           \* openai: the conversation
    contents,           \* gemini: the conversation
    assistant_message,  \* the response whose tool calls are being executed
    tc_idx,             \* position of the for loop over the tool calls
    fc_parts_response,  \* gemini: results of the round so far
    outcome,            \* how process_query ended
    model_calls,        \* history: model calls of this invocation
    tool_requests,      \* history: call_tool requests of this invocation
    responses,          \* history: the model's responses of this invocation
    exec_log,           \* history: what happened to each invocation of the round
    tools,              \* process_query's catalog, as get_mcp_tools returned it
    requests,           \* history: the model calls issued, with their parameters
    pending,            \* call_tool requests sent and not yet answered
    list_requests,      \* history: list_tools requests of this invocation
    tools_result,       \* get_mcp_tools: what list_tools returned to this invocation
    main_pc,            \* "direct" | "main" | "input" | "query" | "cleanup" | "exited"
    session,            \* the tool-host session: "none" | "open" | "closed"
    opens,              \* history: times the session was opened
    closes,             \* history: times the session was closed
    line,               \* history: the line input() returned last
    printed,            \* history: what chat_loop printed for the last line
    earlier,            \* history: how the previous query of the session ended
    srv_pc,             \* tool host: "idle" | "opened"
    srv_call,           \* tool host: the tool being served and its arguments
    srv_result,         \* tool host: how the last tool call ended
    srv_calls,          \* history: tool calls served
    mongo_open,         \* MongoDB clients created and not closed
    cat_pc,             \* get_mcp_tools: "idle" | "listed" | "built"
    inputSchema,        \* get_mcp_tools: tool.inputSchema as the tool host declares it
    parameters          \* get_mcp_tools: the parameter schema handed to the model

catalogVars == <<cat_pc, inputSchema, parameters>>

loopVars == <<pc, max_iterations, iteration_count, messages, contents,
              assistant_message, tc_idx, fc_parts_response, outcome, model_calls,
              tool_requests, responses, exec_log, tools, requests, pending,
              list_requests, tools_result>>

mainVars == <<main_pc, session, opens, closes, line, printed, earlier>>

serverVars == <<srv_pc, srv_call, srv_result, srv_calls, mongo_open>>

vars == <<provider, loopVars, catalogVars, mainVars, serverVars>>

\* ------------------------------------------------------------------ helpers
SeqsUpTo(S, n) == UNION {[1..k -> S] : k \in 0..n}

Last(s) == s[Len(s)]

IsPrefix(s, t) == Len(s) <= Len(t) /\ \A i \in 1..Len(s) : s[i] = t[i]

RECURSIVE Flatten(_)
Flatten(ss) == IF ss = <<>> THEN <<>> ELSE Head(ss) \o Flatten(Tail(ss))

NoOutcome == [kind |-> "none", value |-> <<>>]
Returned(v) == [kind |-> "returned", value |-> v]
Raised(e) == [kind |-> "raised", value |-> e]

\* the payloads that are JSON
ValidJson == {"{}"}

\* faulty variant of JsonLoads: accepts every payload
JsonLoads_AcceptsAll(s) == [raised |-> FALSE, error |-> <<>>]

\* json.loads on a textual payload
JsonLoads(s) ==
    IF s \in ValidJson THEN [raised |-> FALSE, error |-> <<>>]
    ELSE [raised |-> TRUE, error |-> <<"JSONDecodeError">>]

\* ---------------------------------------------------------------- tool host
\* session.call_tool either raises or answers with content blocks and isError
HostReplies ==
    {[kind |-> "result", isError |-> e, content |-> << <<"r">> >>, error |-> <<>>] :
        e \in BOOLEAN}
    \cup {[kind |-> "raise", isError |-> FALSE, content |-> <<>>,
           error |-> <<"unreachable">>]}

\* content = ""; for text_content in result.content: content += text + "\n"
RECURSIVE ConcatBlocks(_)
ConcatBlocks(blocks) ==
    IF blocks = <<>> THEN <<>>
    ELSE Head(blocks) \o <<"\n">> \o ConcatBlocks(Tail(blocks))

\* faulty variant of ErrorText: the failure's message is left out
ErrorText_NoMessage(e) == <<"Error executing tool: ">>

\* f"Error executing tool: {str(e)}"
ErrorText(e) == <<"Error executing tool: ">> \o e

\* faulty variant of LoopCond: off by one
LoopCond_OffByOne(i, m) == i <= m

\* the while condition of both loops
LoopCond(i, m) == i < m

\* faulty variant of NextIteration: a round with a failed invocation is not
\* counted
NextIteration_SkipsFailedRounds(i, log) ==
    IF \E k \in 1..Len(log) : log[k].outcome # "ok" THEN i ELSE i + 1

\* iteration_count += 1, after the for loop over the invocations
NextIteration(i, log) == i + 1

\* faulty variant of AppendTurn: a sliding window that drops the oldest turn
AppendTurn_Window(conv, turn) == Append(Tail(conv), turn)

\* list.append on the conversation
AppendTurn(conv, turn) == Append(conv, turn)

\* no call_tool request was sent, so there is no reply
NoReply == [kind |-> "none", isError |-> FALSE, content |-> <<>>, error |-> <<>>]

\* history: what happened to one invocation
ExecEntry(payload_raised, reply) ==
    IF payload_raised THEN [outcome |-> "badjson", sent |-> FALSE, reply |-> NoReply]
    ELSE IF reply.kind = "raise" THEN [outcome |-> "raise", sent |-> TRUE, reply |-> reply]
    ELSE IF reply.isError THEN [outcome |-> "flag", sent |-> TRUE, reply |-> reply]
    ELSE [outcome |-> "ok", sent |-> TRUE, reply |-> reply]

\* tool invocations a response requests
Invocations(response) ==
    IF response.role = "assistant" THEN Len(response.tool_calls)
    ELSE Len(SelectSeq(response.parts, LAMBDA p : p.kind = "function_call"))

RECURSIVE Requested(_)
Requested(rs) == IF rs = <<>> THEN 0 ELSE Invocations(Head(rs)) + Requested(Tail(rs))

\* invocations the model may still request within the bound
Budget ==
    (IF main_pc = "query" THEN MaxSessionToolCalls ELSE MaxToolCalls)
        - Requested(responses)

\* ------------------------------------------------------- chat_loop's input
\* lines are sequences of characters
Whitespace == {" ", "\t"}

RECURSIVE LStrip(_)
LStrip(s) == IF s # <<>> /\ Head(s) \in Whitespace THEN LStrip(Tail(s)) ELSE s

RECURSIVE RStrip(_)
RStrip(s) ==
    IF s # <<>> /\ Last(s) \in Whitespace THEN RStrip(SubSeq(s, 1, Len(s) - 1)) ELSE s

\* faulty variant of Strip: only leading whitespace is removed
Strip_LeftOnly(s) == LStrip(s)

\* str.strip()
Strip(s) == RStrip(LStrip(s))

LowerChar(c) ==
    CASE c = "Q" -> "q" [] c = "U" -> "u" [] c = "I" -> "i" [] c = "T" -> "t"
      [] OTHER -> c

\* faulty variant of Lower: letter case is left as typed
Lower_AsTyped(s) == s

\* str.lower()
Lower(s) == [i \in 1..Len(s) |-> LowerChar(s[i])]

\* what input() may return
Lines ==
    {<<"q", "u", "i", "t">>,
     <<" ", "Q", "u", "i", "T", "\t">>,
     <<"Q", "U", "I", "T">>,
     <<"q">>,
     <<" ", "q", " ">>,
     <<" ">>,
     <<"q", "u", " ", "i", "t">>}

\* the arguments of the process_query call being started: chat_loop passes
\* the stripped line and leaves max_iterations at its default
CallQueries == IF main_pc = "query" THEN {Strip(line)} ELSE Queries

\* a direct caller may pass any integer; -1 stands for the negative ones
CallMaxIterations ==
    IF main_pc = "query" THEN {DefaultMaxIterations} ELSE (-1)..MaxIter

\* ------------------------------------------------------- the model's requests
\* a keyword argument of a model call: passed with a value, or left out
Passed(v) == [set |-> TRUE, value |-> v]
NotPassed == [set |-> FALSE, value |-> <<>>]

\* the system instruction of the Gemini loop
SystemInstruction == <<"SYSTEM">>

\* tools_result.tools, in the host's order, as connect_to_server saw it
ConnectCatalog == <<"get_mongodb_collections", "execute_mongodb_query">>

\* what list_tools answers at the start of a query: during a session the
\* host's list need not be the one it had when the session was opened
HostCatalogs ==
    IF main_pc = "query" THEN {ConnectCatalog, <<"execute_mongodb_query">>}
    ELSE {ConnectCatalog}

\* the catalog is not fetched
NoTools == <<>>

\* faulty variant of Settle: the answered request stays in flight
Settle_Leak(p) == p

\* await self.session.call_tool(...) has returned or raised
Settle(p) == p - 1

\* ------------------------------------------------------------------- OpenAI
SystemMessage == [role |-> "system", content |-> <<"SYSTEM">>]

\* the provider assigns each tool call its id
CallId(n, i) == <<"call", n, i>>

\* the n-th response of the model, with at most `budget` tool calls
OA_Responses(n, budget) ==
    {[role |-> "assistant", content |-> c,
      tool_calls |-> [i \in 1..Len(tcs) |->
                        [id |-> CallId(n, i), name |-> tcs[i].name,
                         arguments |-> tcs[i].arguments]]] :
        c \in Texts \cup {NoContent},
        tcs \in SeqsUpTo([name : ToolNames, arguments : JsonTexts], budget)}

\* the response to the call after the loop: text, or all the same one tool call
OA_FinalResponses(n) ==
    OA_Responses(n, 0) \cup {r \in OA_Responses(n, 1) : r.content = NoContent}

\* faulty variant of OA_ToolMessage: every result carries the first call's id
OA_ToolMessage_FirstId(tool_call, content) ==
    [role |-> "tool", tool_call_id |-> CallId(1, 1), content |-> content]

OA_ToolMessage(tool_call, content) ==
    [role |-> "tool", tool_call_id |-> tool_call.id, content |-> content]

\* what one pass of the for loop body appends, given the host's reply
OA_ToolResult(tool_call, reply) ==
    IF JsonLoads(tool_call.arguments).raised
    THEN OA_ToolMessage(tool_call, ErrorText(JsonLoads(tool_call.arguments).error))
    ELSE IF reply.kind = "raise"
    THEN OA_ToolMessage(tool_call, ErrorText(reply.error))
    ELSE OA_ToolMessage(tool_call, ConcatBlocks(reply.content))

\* faulty variant of OA_Tools: the list of connect_to_server is kept and
\* presented for every query
OA_Tools_ConnectTime(listed) ==
    [i \in 1..Len(ConnectCatalog) |-> [type |-> "function", name |-> ConnectCatalog[i]]]

\* the list get_mcp_tools returns: one function entry per tool of the host
OA_Tools(listed) == [i \in 1..Len(listed) |-> [type |-> "function", name |-> listed[i]]]

\* faulty variant of OA_Request: the call after the loop offers the tools too
OA_Request_ToolsAlways(in_loop) ==
    [system |-> IF messages # <<>> /\ messages[1].role = "system"
                THEN Passed(messages[1].content) ELSE NotPassed,
     temperature |-> NotPassed,
     tools |-> Passed(tools),
     tool_choice |-> "auto"]

\* the parameters of chat.completions.create: the system instruction travels
\* as the first message, temperature is never passed
OA_Request(in_loop) ==
    [system |-> IF messages # <<>> /\ messages[1].role = "system"
                THEN Passed(messages[1].content) ELSE NotPassed,
     temperature |-> NotPassed,
     tools |-> IF in_loop THEN Passed(tools) ELSE NotPassed,
     tool_choice |-> IF in_loop THEN "auto" ELSE "none"]

\* process_query up to the while test, get_mcp_tools having succeeded
OA_Start ==
    /\ UNCHANGED <<catalogVars, mainVars, serverVars>>
    /\ provider = "openai"
    /\ pc = "idle"
    /\ main_pc \in {"direct", "query"}
    /\ \E query \in CallQueries, max_it \in CallMaxIterations, listed \in HostCatalogs :
        /\ tools' = OA_Tools(listed)
        /\ tools_result' = listed
        /\ messages' = <<SystemMessage, [role |-> "user", content |-> query]>>
        /\ max_iterations' = max_it
    /\ list_requests' = list_requests + 1
    /\ iteration_count' = 0
    /\ pc' = "loop"
    /\ assistant_message' = <<>>
    /\ tc_idx' = 0
    /\ outcome' = NoOutcome
    /\ model_calls' = 0
    /\ tool_requests' = 0
    /\ responses' = <<>>
    /\ exec_log' = <<>>
    /\ requests' = <<>>
    /\ UNCHANGED <<provider, contents, fc_parts_response, pending>>

\* one pass of the while body up to the first await of the for loop
OA_ModelCall ==
    /\ UNCHANGED <<catalogVars, mainVars, serverVars>>
    /\ provider = "openai"
    /\ pc = "loop"
    /\ LoopCond(iteration_count, max_iterations)
    /\ \E response \in OA_Responses(model_calls + 1, Budget) :
        /\ responses' = Append(responses, response)
        /\ messages' = AppendTurn(messages, response)
        /\ IF response.tool_calls = <<>>
           THEN /\ outcome' = Returned(response.content)
                /\ pc' = "done"
                /\ UNCHANGED <<assistant_message, tc_idx>>
           ELSE /\ assistant_message' = response
                /\ tc_idx' = 1
                /\ pc' = "tools"
                /\ UNCHANGED outcome
    /\ requests' = Append(requests, OA_Request(TRUE))
    /\ model_calls' = model_calls + 1
    /\ exec_log' = <<>>
    /\ UNCHANGED <<provider, max_iterations, iteration_count, contents,
                   fc_parts_response, tool_requests, tools, pending, list_requests,
                   tools_result>>

\* the call_tool request of one tool call is sent; the loop waits for the reply
OA_CallTool ==
    /\ UNCHANGED <<catalogVars, mainVars, serverVars>>
    /\ provider = "openai"
    /\ pc = "tools"
    /\ ~JsonLoads(assistant_message.tool_calls[tc_idx].arguments).raised
    /\ tool_requests' = tool_requests + 1
    /\ pending' = pending + 1
    /\ pc' = "await"
    /\ UNCHANGED <<provider, max_iterations, iteration_count, messages, contents,
                   assistant_message, tc_idx, fc_parts_response, outcome, model_calls,
                   responses, exec_log, tools, requests, list_requests,
                   tools_result>>

\* the rest of one pass of the for loop: the reply of the host, or the failure
\* of json.loads, becomes a tool message; the last pass runs on to the while test
OA_ExecTool ==
    /\ UNCHANGED <<catalogVars, mainVars, serverVars>>
    /\ provider = "openai"
    /\ pc \in {"tools", "await"}
    /\ LET tool_call == assistant_message.tool_calls[tc_idx]
           bad == JsonLoads(tool_call.arguments).raised
       IN /\ (pc = "tools") = bad
          /\ \E reply \in IF bad THEN {NoReply} ELSE HostReplies :
                /\ messages' = AppendTurn(messages, OA_ToolResult(tool_call, reply))
                /\ exec_log' = Append(exec_log, ExecEntry(bad, reply))
          /\ pending' = IF bad THEN pending ELSE Settle(pending)
    /\ IF tc_idx < Len(assistant_message.tool_calls)
       THEN /\ tc_idx' = tc_idx + 1
            /\ pc' = "tools"
            /\ UNCHANGED iteration_count
       ELSE /\ tc_idx' = 0
            /\ iteration_count' = NextIteration(iteration_count, exec_log')
            /\ pc' = "loop"
    /\ UNCHANGED <<provider, max_iterations, contents, assistant_message,
                   fc_parts_response, outcome, model_calls, responses, tool_requests,
                   tools, requests, list_requests, tools_result>>

\* the call after the loop, made with tool_choice="none" and without tools;
\* whatever the response holds, its content is returned
OA_FinalCall ==
    /\ UNCHANGED <<catalogVars, mainVars, serverVars>>
    /\ provider = "openai"
    /\ pc = "loop"
    /\ ~LoopCond(iteration_count, max_iterations)
    /\ \E response \in OA_FinalResponses(model_calls + 1) :
        /\ responses' = Append(responses, response)
        /\ outcome' = Returned(response.content)
    /\ requests' = Append(requests, OA_Request(FALSE))
    /\ model_calls' = model_calls + 1
    /\ pc' = "done"
    /\ UNCHANGED <<provider, max_iterations, iteration_count, messages, contents,
                   assistant_message, tc_idx, fc_parts_response, tool_requests,
                   exec_log, tools, pending, list_requests, tools_result>>

\* ------------------------------------------------------------------- Gemini
\* fc.args: a dict (what the SDK delivers), or text that json.loads has to
\* parse and that is not JSON; text that is JSON parses to the same dict
GeminiArgs ==
    {[type |-> "dict", text |-> "{}"], [type |-> "str", text |-> "{"]}

GeminiParts ==
    {[kind |-> "text", text |-> t, name |-> "", args |-> <<>>] : t \in Texts}
    \cup {[kind |-> "function_call", text |-> <<>>, name |-> n, args |-> a] :
            n \in ToolNames, a \in GeminiArgs}

\* a response of the model: 1..MaxParts parts, at most `budget` function calls
G_Responses(budget) ==
    {r \in {[role |-> "model", parts |-> ps] :
                ps \in SeqsUpTo(GeminiParts, MaxParts) \ {<<>>}} :
        Invocations(r) <= budget}

\* the response to the call after the loop: text, or all the same one function
\* call
G_FinalResponses == G_Responses(0) \cup {r \in G_Responses(1) : Len(r.parts) = 1}

FunctionCalls(message) == SelectSeq(message.parts, LAMBDA p : p.kind = "function_call")

\* flag: some part of the message is a function call
HasFunctionCall(message) == \E i \in 1..Len(message.parts) :
                                message.parts[i].kind = "function_call"

\* json.loads(fc.args) if type(fc.args) != dict else fc.args
G_ParseArgs(args) ==
    IF args.type = "dict" THEN [raised |-> FALSE, error |-> <<>>]
    ELSE JsonLoads(args.text)

\* part_response of one function call, given the host's reply
G_PartResponse(fc, reply) ==
    IF G_ParseArgs(fc.args).raised
    THEN [key |-> "error", text |-> ErrorText(G_ParseArgs(fc.args).error)]
    ELSE IF reply.kind = "raise"
    THEN [key |-> "error", text |-> ErrorText(reply.error)]
    ELSE IF reply.isError
    THEN [key |-> "error", text |-> ConcatBlocks(reply.content)]
    ELSE [key |-> "result", text |-> ConcatBlocks(reply.content)]

\* types.Part.from_function_response(name=fc.name, response=part_response)
G_FunctionResponse(fc, part_response) ==
    [kind |-> "function_response", name |-> fc.name, response |-> part_response]

\* function_declarations of the types.Tool get_mcp_tools returns
G_Tools(listed) == [i \in 1..Len(listed) |-> [type |-> "declaration", name |-> listed[i]]]

\* the parameters of generate_content: the loop passes a config, the call
\* after the loop passes none
G_Request(in_loop) ==
    [system |-> IF in_loop THEN Passed(SystemInstruction) ELSE NotPassed,
     temperature |-> IF in_loop THEN Passed(0) ELSE NotPassed,
     tools |-> IF in_loop THEN Passed(tools) ELSE NotPassed,
     tool_choice |-> "unset"]

\* process_query up to the while test, get_mcp_tools having succeeded
G_Start ==
    /\ UNCHANGED <<catalogVars, mainVars, serverVars>>
    /\ provider = "gemini"
    /\ pc = "idle"
    /\ main_pc \in {"direct", "query"}
    /\ \E query \in CallQueries, max_it \in CallMaxIterations, listed \in HostCatalogs :
        /\ tools' = G_Tools(listed)
        /\ tools_result' = listed
        /\ contents' = <<[role |-> "user",
                          parts |-> <<[kind |-> "text", text |-> query,
                                       name |-> "", args |-> <<>>]>>]>>
        /\ max_iterations' = max_it
    /\ list_requests' = list_requests + 1
    /\ iteration_count' = 0
    /\ pc' = "loop"
    /\ assistant_message' = <<>>
    /\ tc_idx' = 0
    /\ fc_parts_response' = <<>>
    /\ outcome' = NoOutcome
    /\ model_calls' = 0
    /\ tool_requests' = 0
    /\ responses' = <<>>
    /\ exec_log' = <<>>
    /\ requests' = <<>>
    /\ UNCHANGED <<provider, messages, pending>>

\* one pass of the while body up to the first await of the for loop
G_ModelCall ==
    /\ UNCHANGED <<catalogVars, mainVars, serverVars>>
    /\ provider = "gemini"
    /\ pc = "loop"
    /\ LoopCond(iteration_count, max_iterations)
    /\ \E response \in G_Responses(Budget) :
        /\ responses' = Append(responses, response)
        /\ IF ~HasFunctionCall(response)
           THEN /\ outcome' = Returned(response.parts[1].text)
                /\ pc' = "done"
                /\ UNCHANGED <<contents, assistant_message, tc_idx>>
           ELSE /\ contents' = AppendTurn(contents, response)
                /\ assistant_message' = response
                /\ tc_idx' = 1
                /\ pc' = "tools"
                /\ UNCHANGED outcome
    /\ requests' = Append(requests, G_Request(TRUE))
    /\ fc_parts_response' = <<>>
    /\ model_calls' = model_calls + 1
    /\ exec_log' = <<>>
    /\ UNCHANGED <<provider, max_iterations, iteration_count, messages,
                   tool_requests, tools, pending, list_requests, tools_result>>

\* the call_tool request of one function call is sent; the loop waits for the
\* reply
G_CallTool ==
    /\ UNCHANGED <<catalogVars, mainVars, serverVars>>
    /\ provider = "gemini"
    /\ pc = "tools"
    /\ ~G_ParseArgs(FunctionCalls(assistant_message)[tc_idx].args).raised
    /\ tool_requests' = tool_requests + 1
    /\ pending' = pending + 1
    /\ pc' = "await"
    /\ UNCHANGED <<provider, max_iterations, iteration_count, messages, contents,
                   assistant_message, tc_idx, fc_parts_response, outcome, model_calls,
                   responses, exec_log, tools, requests, list_requests,
                   tools_result>>

\* the rest of one function call of the for loop; the last one runs on to the
\* while test
G_ExecTool ==
    /\ UNCHANGED <<catalogVars, mainVars, serverVars>>
    /\ provider = "gemini"
    /\ pc \in {"tools", "await"}
    /\ LET fc == FunctionCalls(assistant_message)[tc_idx]
           bad == G_ParseArgs(fc.args).raised
       IN /\ (pc = "tools") = bad
          /\ pending' = IF bad THEN pending ELSE Settle(pending)
          /\ \E reply \in IF bad THEN {NoReply} ELSE HostReplies :
            LET results == Append(fc_parts_response,
                                  G_FunctionResponse(fc, G_PartResponse(fc, reply)))
            IN /\ fc_parts_response' = results
               /\ exec_log' = Append(exec_log, ExecEntry(bad, reply))
               /\ IF tc_idx < Len(FunctionCalls(assistant_message))
                  THEN /\ tc_idx' = tc_idx + 1
                       /\ pc' = "tools"
                       /\ UNCHANGED <<iteration_count, contents>>
                  ELSE /\ tc_idx' = 0
                       /\ contents' = IF results # <<>>
                                      THEN AppendTurn(contents,
                                               [role |-> "function", parts |-> results])
                                      ELSE contents
                       /\ iteration_count' = NextIteration(iteration_count, exec_log')
                       /\ pc' = "loop"
    /\ UNCHANGED <<provider, max_iterations, messages, assistant_message,
                   outcome, model_calls, responses, tool_requests, tools, requests,
                   list_requests, tools_result>>

\* the call after the loop, made without a config; then
\* final_response.choices[0]: the response of generate_content has no
\* attribute choices, so the return statement raises AttributeError whatever
\* the response holds
G_FinalCall ==
    /\ UNCHANGED <<catalogVars, mainVars, serverVars>>
    /\ provider = "gemini"
    /\ pc = "loop"
    /\ ~LoopCond(iteration_count, max_iterations)
    /\ \E response \in G_FinalResponses :
        responses' = Append(responses, response)
    /\ requests' = Append(requests, G_Request(FALSE))
    /\ outcome' = Raised(<<"AttributeError">>)
    /\ model_calls' = model_calls + 1
    /\ pc' = "done"
    /\ UNCHANGED <<provider, max_iterations, iteration_count, messages, contents,
                   assistant_message, tc_idx, fc_parts_response, tool_requests,
                   exec_log, tools, pending, list_requests, tools_result>>

\* ------------------------------------------------------- tool catalog adapter
\* A JSON value: a dict (its items in order), a list, or a leaf.
Dict(items) == [t |-> "dict", items |-> items]
List(elems) == [t |-> "list", elems |-> elems]
Leaf(v) == [t |-> "leaf", v |-> v]
Item(key, val) == [key |-> key, val |-> val]

Keys(d) == {d.items[i].key : i \in 1..Len(d.items)}

\* d[key]
ValueOf(d, key) == d.items[CHOOSE i \in 1..Len(d.items) : d.items[i].key = key].val

\* faulty variant of Unsupported: only the snake_case spelling is known
Unsupported_SnakeOnly == {"additional_properties", "examples"}

\* the keys clean_schema_recursive skips
Unsupported == {"additional_properties", "additionalProperties", "examples"}

\* the keys clean_schema_recursive resolves as a nullable union
AnyOfKeys == {"any_of", "anyOf"}

\* the keys get_mcp_tools keeps at the top level
TopLevelKeys == {"type", "properties", "required", "description", "title", "default",
                 "enum"}

\* for option in value: only a list can yield a dict (a dict yields its keys,
\* a string its characters)
Options(value) == IF value.t = "list" THEN value.elems ELSE <<>>

\* isinstance(option, dict) and option.get("type") != "null"
NonNullOption(option) ==
    /\ option.t = "dict"
    /\ ~("type" \in Keys(option) /\ ValueOf(option, "type") = Leaf("null"))

\* index of the first non-null option of a union, 0 when there is none
FirstNonNull(options) ==
    IF \E i \in 1..Len(options) : NonNullOption(options[i])
    THEN CHOOSE i \in 1..Len(options) :
            /\ NonNullOption(options[i])
            /\ \A j \in 1..(i - 1) : ~NonNullOption(options[j])
    ELSE 0

RECURSIVE clean_schema_recursive(_)
RECURSIVE CleanItems(_, _, _)

\* the for loop over schema.items(), from item i on, with `cleaned` so far
CleanItems(items, i, cleaned) ==
    IF i > Len(items) THEN Dict(cleaned)
    ELSE LET key == items[i].key
             value == items[i].val
         IN IF key \in Unsupported THEN CleanItems(items, i + 1, cleaned)
            ELSE IF key \in AnyOfKeys
            THEN IF FirstNonNull(Options(value)) # 0
                 THEN clean_schema_recursive(Options(value)[FirstNonNull(Options(value))])
                 ELSE CleanItems(items, i + 1, cleaned)
            ELSE CleanItems(items, i + 1,
                            Append(cleaned, Item(key, clean_schema_recursive(value))))

clean_schema_recursive(schema) ==
    IF schema.t = "dict" THEN CleanItems(schema.items, 1, <<>>)
    ELSE IF schema.t = "list"
    THEN List([i \in 1..Len(schema.elems) |-> clean_schema_recursive(schema.elems[i])])
    ELSE schema

\* {k: v for k, v in cleaned_schema.items() if k in {...}}
KeepTopLevel(cleaned_schema) ==
    Dict(SelectSeq(cleaned_schema.items, LAMBDA it : it.key \in TopLevelKeys))

\* "parameters" of one tool in the Gemini client
G_Parameters(schema) == KeepTopLevel(clean_schema_recursive(schema))

\* "parameters" of one tool in the OpenAI client
OA_Parameters(schema) == schema

\* ------------------------------------------- schemas the tool host declares
\* most parameters of a tool
MaxProps == 2

PropNames == <<"city", "examples", "anyOf", "limit">>

StringSchema == Dict(<<Item("type", Leaf("string"))>>)
NullSchema == Dict(<<Item("type", Leaf("null"))>>)
OpenObjectSchema ==
    Dict(<<Item("additionalProperties", Leaf("true")), Item("type", Leaf("object"))>>)

ScalarSchemas ==
    {StringSchema, OpenObjectSchema,
     Dict(<<Item("title", Leaf("T")), Item("type", Leaf("string"))>>),
     Dict(<<Item("format", Leaf("date")), Item("type", Leaf("string"))>>),
     Dict(<<Item("examples", List(<<Leaf("e")>>)), Item("type", Leaf("string"))>>)}

ArraySchemas ==
    {Dict(<<Item("items", it), Item("type", Leaf("array"))>>) :
        it \in {StringSchema, OpenObjectSchema}}

\* Optional[...] parameters: a union with null, beside a title and a default
UnionSchemas ==
    LET opts == {StringSchema, OpenObjectSchema,
                 Dict(<<Item("items", StringSchema), Item("type", Leaf("array"))>>)}
        lists == {<<NullSchema>>} \cup {<<o, NullSchema>> : o \in opts}
                    \cup {<<NullSchema, o>> : o \in opts}
    IN {Dict(<<Item("anyOf", List(l)), Item("default", Leaf("null")),
               Item("title", Leaf("T"))>>) : l \in lists}
       \cup {Dict(<<Item("default", Leaf("null")), Item("title", Leaf("T")),
                    Item("anyOf", List(l))>>) : l \in lists}
       \cup {Dict(<<Item("any_of", List(l)), Item("title", Leaf("T"))>>) : l \in lists}

PropertySchemas == ScalarSchemas \cup ArraySchemas \cup UnionSchemas

\* what a declared schema may carry before and after its own keys
RootExtras ==
    {<< <<>>, <<>> >>,
     << <<Item("$schema", Leaf("draft-07"))>>, <<>> >>,
     << <<>>, <<Item("additionalProperties", Leaf("false"))>> >>}

\* tool.inputSchema: an object schema with up to MaxProps parameters
RawSchemas ==
    LET props(ps) == Dict([i \in 1..Len(ps) |-> Item(PropNames[i], ps[i])])
        required(ps) == List([i \in 1..Len(ps) |-> Leaf(PropNames[i])])
        base(ps) == <<Item("properties", props(ps)), Item("required", required(ps)),
                      Item("title", Leaf("Arguments")), Item("type", Leaf("object"))>>
    IN {Dict(x[1] \o base(ps) \o x[2]) :
            x \in RootExtras, ps \in SeqsUpTo(PropertySchemas, MaxProps)}

NoSchema == Dict(<<>>)

\* tools_result = await self.session.list_tools(): one tool of the catalog
ListTools ==
    /\ cat_pc = "idle"
    /\ inputSchema' \in RawSchemas
    /\ cat_pc' = "listed"
    /\ UNCHANGED <<provider, loopVars, mainVars, serverVars, parameters>>

\* one pass of the for loop of the Gemini get_mcp_tools
G_GetMcpTools ==
    /\ provider = "gemini"
    /\ cat_pc = "listed"
    /\ parameters' = G_Parameters(inputSchema)
    /\ cat_pc' = "built"
    /\ UNCHANGED <<provider, loopVars, mainVars, serverVars, inputSchema>>

\* one element of the list the OpenAI get_mcp_tools returns
OA_GetMcpTools ==
    /\ provider = "openai"
    /\ cat_pc = "listed"
    /\ parameters' = OA_Parameters(inputSchema)
    /\ cat_pc' = "built"
    /\ UNCHANGED <<provider, loopVars, mainVars, serverVars, inputSchema>>

\* the catalog is dropped when the query ends
DropCatalog ==
    /\ cat_pc = "built"
    /\ cat_pc' = "idle"
    /\ inputSchema' = NoSchema
    /\ parameters' = NoSchema
    /\ UNCHANGED <<provider, loopVars, mainVars, serverVars>>

\* ------------------------------------------------------------ the tool host
\* The tools of src/server.py, with MongoDB as a nondeterministic peer.
\* A BSON value: a dict, a list, an ObjectId or another leaf.
Oid(v) == [t |-> "oid", v |-> v]

\* faulty variant of convert_objectids: only the fields of the documents of a
\* list are looked at, nothing below them
convert_objectids_Shallow(obj) ==
    LET field(v) == IF v.t = "oid" THEN Leaf(v.v) ELSE v
        document(d) ==
            IF d.t = "dict"
            THEN Dict([i \in 1..Len(d.items) |-> Item(d.items[i].key, field(d.items[i].val))])
            ELSE field(d)
    IN IF obj.t = "list" THEN List([i \in 1..Len(obj.elems) |-> document(obj.elems[i])])
       ELSE document(obj)

RECURSIVE convert_objectids(_)
convert_objectids(obj) ==
    IF obj.t = "list"
    THEN List([i \in 1..Len(obj.elems) |-> convert_objectids(obj.elems[i])])
    ELSE IF obj.t = "dict"
    THEN Dict([i \in 1..Len(obj.items) |->
                Item(obj.items[i].key, convert_objectids(obj.items[i].val))])
    ELSE IF obj.t = "oid" THEN Leaf(obj.v)
    ELSE obj

\* most documents in the collection
MaxDocs == 2
\* most tool calls the tool host serves
MaxServerCalls == 2

\* the documents a collection may hold
Documents ==
    {Dict(<<Item("_id", Oid("64a")), Item("age", Leaf(1))>>),
     Dict(<<Item("_id", Leaf("u2")), Item("age", Leaf(2)),
            Item("refs", List(<<Oid("64b")>>))>>),
     Dict(<<Item("_id", Oid("64c")), Item("age", Leaf(1)),
            Item("address", Dict(<<Item("city", Leaf("x")),
                                   Item("owners", List(<<Leaf("64a"), Oid("64a")>>))>>))>>)}

\* what the cursor would yield, in the order of the collection
Collections == SeqsUpTo(Documents, MaxDocs)

MongoTools == {"get_mongodb_sample_documents", "get_mongodb_databases",
               "get_mongodb_collections", "execute_mongodb_query",
               "get_users_by_city"}

\* the tools whose body is a try with the three except clauses
Guarded(tool) == tool \in {"execute_mongodb_query", "get_users_by_city"}

\* the tools that call client.close() before they return
ClosesClient(tool) == tool \in {"get_mongodb_sample_documents",
                                "execute_mongodb_query", "get_users_by_city"}

\* the tools that take limit and sort
Limits(tool) ==
    IF tool \in {"get_mongodb_databases", "get_mongodb_collections"} THEN {0}
    ELSE 0..MaxDocs

Sorts(tool) == IF Guarded(tool) THEN {"none", "age"} ELSE {"none"}

\* the exceptions pymongo raises, each with the classes it is an instance of
MongoErrors ==
    {[exc |-> "ServerSelectionTimeoutError",
      isa |-> {"ServerSelectionTimeoutError", "ConnectionFailure", "Exception"}],
     [exc |-> "OperationFailure", isa |-> {"OperationFailure", "Exception"}],
     [exc |-> "TypeError", isa |-> {"TypeError", "Exception"}]}

NoError == [exc |-> "none", isa |-> {}]

\* cursor.sort([("age", 1)]) on at most MaxDocs documents: insertion sort
RECURSIVE SortByAge(_)
InsertByAge(doc, sorted) ==
    LET smaller == SelectSeq(sorted,
                       LAMBDA d : ValueOf(d, "age").v <= ValueOf(doc, "age").v)
        larger == SelectSeq(sorted,
                       LAMBDA d : ValueOf(d, "age").v > ValueOf(doc, "age").v)
    IN smaller \o <<doc>> \o larger

SortByAge(docs) ==
    IF docs = <<>> THEN <<>>
    ELSE InsertByAge(Last(docs), SortByAge(SubSeq(docs, 1, Len(docs) - 1)))

\* if sort: cursor = cursor.sort(sort); if limit: cursor = cursor.limit(limit)
Cursor(docs, sort, limit) ==
    LET sorted == IF sort = "age" THEN SortByAge(docs) ELSE docs
    IN IF limit # 0 /\ limit < Len(sorted) THEN SubSeq(sorted, 1, limit) ELSE sorted

\* what a tool raises for an exception e of its body: the guarded tools catch
\* it and raise Exception with a message; the others let it pass
ToolRaises(tool, e) ==
    IF ~Guarded(tool) THEN [exc |-> e.exc, message |-> <<e.exc>>]
    ELSE IF "ConnectionFailure" \in e.isa
    THEN [exc |-> "Exception", message |-> <<"Connection to MongoDB failed: ", e.exc>>]
    ELSE IF "OperationFailure" \in e.isa
    THEN [exc |-> "Exception", message |-> <<"Query operation failed: ", e.exc>>]
    ELSE [exc |-> "Exception", message |-> <<"An error occurred: ", e.exc>>]

\* results = list(cursor), before the conversion; the tools that list names
\* have no cursor
Results(tool, docs) ==
    IF tool \in {"get_mongodb_databases", "get_mongodb_collections"} THEN List(<<>>)
    ELSE List(docs)

\* what a tool returns from the documents or names the database yields
ToolReturns(tool, docs) ==
    IF tool \in {"get_mongodb_databases", "get_mongodb_collections"}
    THEN List(<<Leaf("UsersDB")>>)
    ELSE convert_objectids(List(docs))

NoCall == [tool |-> "none", limit |-> 0, sort |-> "none"]
NoResult == [kind |-> "none", exc |-> "none", message |-> <<>>, value |-> List(<<>>),
             cause |-> NoError, results |-> List(<<>>)]

\* a tool is called: client = pymongo.MongoClient(...), which connects lazily
Srv_Open ==
    /\ srv_pc = "idle"
    /\ srv_calls < MaxServerCalls
    /\ \E tool \in MongoTools :
        \E limit \in Limits(tool), sort \in Sorts(tool) :
            srv_call' = [tool |-> tool, limit |-> limit, sort |-> sort]
    /\ srv_calls' = srv_calls + 1
    /\ mongo_open' = mongo_open + 1
    /\ srv_result' = NoResult
    /\ srv_pc' = "opened"
    /\ UNCHANGED <<provider, loopVars, catalogVars, mainVars>>

\* the database operation raises: the except clauses, where the tool has them
Srv_Fails ==
    /\ srv_pc = "opened"
    /\ \E e \in MongoErrors :
        srv_result' = [kind |-> "raised", exc |-> ToolRaises(srv_call.tool, e).exc,
                       message |-> ToolRaises(srv_call.tool, e).message,
                       value |-> List(<<>>), cause |-> e, results |-> List(<<>>)]
    /\ srv_pc' = "idle"
    /\ UNCHANGED <<provider, loopVars, catalogVars, mainVars, srv_call, srv_calls,
                   mongo_open>>

\* the database operation succeeds: the rest of the tool's body
Srv_Succeeds ==
    /\ srv_pc = "opened"
    /\ \E docs \in Collections :
        srv_result' = [kind |-> "returned", exc |-> "none", message |-> <<>>,
                       value |-> ToolReturns(srv_call.tool,
                                    Cursor(docs, srv_call.sort, srv_call.limit)),
                       cause |-> NoError,
                       results |-> Results(srv_call.tool,
                                      Cursor(docs, srv_call.sort, srv_call.limit))]
    /\ mongo_open' = IF ClosesClient(srv_call.tool) THEN mongo_open - 1 ELSE mongo_open
    /\ srv_pc' = "idle"
    /\ UNCHANGED <<provider, loopVars, catalogVars, mainVars, srv_call, srv_calls>>

\* ------------------------------------------------------------ both clients
\* the parameters of the model call the loop is about to issue
Request ==
    IF provider = "openai" THEN OA_Request(LoopCond(iteration_count, max_iterations))
    ELSE G_Request(LoopCond(iteration_count, max_iterations))

\* a model call that raises: nothing in process_query catches it
ModelCallFails ==
    /\ UNCHANGED <<catalogVars, mainVars, serverVars>>
    /\ pc = "loop"
    /\ requests' = Append(requests, Request)
    /\ model_calls' = model_calls + 1
    /\ outcome' = Raised(<<"ProviderCallError">>)
    /\ pc' = "done"
    /\ UNCHANGED <<provider, max_iterations, iteration_count, messages, contents,
                   assistant_message, tc_idx, fc_parts_response, tool_requests,
                   responses, exec_log, tools, pending, list_requests,
                   tools_result>>

\* faulty variant of GetToolsFails: the failure is swallowed and the loop
\* starts with an empty catalog
GetToolsFails_EmptyCatalog ==
    /\ UNCHANGED <<catalogVars, mainVars, serverVars>>
    /\ pc = "idle"
    /\ main_pc \in {"direct", "query"}
    /\ list_requests' = list_requests + 1
    /\ outcome' = NoOutcome
    /\ pc' = "loop"
    /\ \E query \in CallQueries :
        /\ messages' = <<SystemMessage, [role |-> "user", content |-> query]>>
        /\ contents' = <<[role |-> "user",
                          parts |-> <<[kind |-> "text", text |-> query,
                                       name |-> "", args |-> <<>>]>>]>>
    /\ max_iterations' = 0
    /\ UNCHANGED <<provider, iteration_count, assistant_message, tc_idx,
                   fc_parts_response, model_calls, tool_requests, responses,
                   exec_log, tools, requests, pending, tools_result>>

\* tools = await self.get_mcp_tools() raises because list_tools does: the
\* first statement of process_query, which catches nothing
GetToolsFails ==
    /\ UNCHANGED <<catalogVars, mainVars, serverVars>>
    /\ pc = "idle"
    /\ main_pc \in {"direct", "query"}
    /\ list_requests' = list_requests + 1
    /\ outcome' = Raised(<<"ListToolsError">>)
    /\ pc' = "done"
    /\ UNCHANGED <<provider, max_iterations, iteration_count, messages, contents,
                   assistant_message, tc_idx, fc_parts_response, model_calls,
                   tool_requests, responses, exec_log, tools, requests, pending,
                   tools_result>>

\* what chat_loop prints
NoPrint == [kind |-> "none", text |-> <<>>]
Answer(text) == [kind |-> "answer", text |-> <<"Answer: ">> \o text]
Error(e) == [kind |-> "error", text |-> <<"Error: ">> \o e]
Goodbye == [kind |-> "goodbye", text |-> <<"Goodbye!">>]

\* print("\nAnswer: " + response), or the except branch of chat_loop; a
\* response of None cannot be concatenated, which raises TypeError inside try
Report(result) ==
    IF result.kind = "raised" THEN Error(result.value)
    ELSE IF result.value = NoContent THEN Error(<<"TypeError">>)
    ELSE Answer(result.value)

\* faulty variant of AfterQuery: chat_loop without its except branch
AfterQuery_Uncaught(result) == IF result.kind = "raised" THEN "cleanup" ELSE "input"

\* where chat_loop goes on after a query: both the try body and the except
\* branch end the pass of while True
AfterQuery(result) == "input"

\* process_query has ended and its locals are gone; chat_loop prints the
\* answer or the error and goes back to input()
Finish ==
    /\ UNCHANGED <<catalogVars, serverVars>>
    /\ pc = "done"
    /\ pc' = "idle"
    /\ max_iterations' = 0
    /\ iteration_count' = 0
    /\ messages' = <<>>
    /\ contents' = <<>>
    /\ assistant_message' = <<>>
    /\ tc_idx' = 0
    /\ fc_parts_response' = <<>>
    /\ model_calls' = 0
    /\ tool_requests' = 0
    /\ responses' = <<>>
    /\ exec_log' = <<>>
    /\ tools' = NoTools
    /\ requests' = <<>>
    /\ list_requests' = 0
    /\ tools_result' = <<>>
    /\ IF main_pc = "query"
       THEN /\ main_pc' = AfterQuery(outcome)
            /\ printed' = Report(outcome)
            /\ earlier' = outcome.kind
       ELSE UNCHANGED <<main_pc, printed, earlier>>
    /\ UNCHANGED <<provider, outcome, pending, session, opens, closes, line>>

\* ------------------------------------------------------------------- main
\* what connect_to_server comes to: the server process cannot be started, the
\* session is entered and initialize or list_tools fails, or all succeeds
ConnectResults == {"no_transport", "no_handshake", "connected"}

\* faulty variant of AfterConnect: main without its finally clause
AfterConnect_NoFinally(result) == IF result = "connected" THEN "input" ELSE "exited"

\* try: connect_to_server(); chat_loop() finally: cleanup()
AfterConnect(result) == IF result = "connected" THEN "input" ELSE "cleanup"

\* await client.connect_to_server()
ConnectToServer ==
    /\ main_pc = "main"
    /\ \E result \in ConnectResults :
        /\ IF result = "no_transport"
           THEN UNCHANGED <<session, opens>>
           ELSE session' = "open" /\ opens' = opens + 1
        /\ main_pc' = AfterConnect(result)
    /\ UNCHANGED <<provider, loopVars, catalogVars, serverVars, closes, line,
                   printed, earlier>>

\* query = input("\nQuery: ").strip(), the test for quit, and the call of
\* process_query up to its first await
ReadLine ==
    /\ main_pc = "input"
    /\ \E l \in Lines :
        /\ line' = l
        /\ IF Lower(Strip(l)) = <<"q", "u", "i", "t">>
           THEN /\ printed' = Goodbye
                /\ main_pc' = "cleanup"
           ELSE /\ printed' = NoPrint
                /\ main_pc' = "query"
    /\ UNCHANGED <<provider, loopVars, catalogVars, serverVars, session, opens,
                   closes, earlier>>

\* what input() raises when no line can be read; both are Exceptions
InputErrors == {<<"EOFError">>, <<"UnicodeDecodeError">>}

\* faulty variant of AfterInputError: input() stands before the try
AfterInputError_Uncaught(e) == "cleanup"

\* input() is the first statement of the try, so the except branch takes its
\* failure and the pass of while True ends
AfterInputError(e) == "input"

\* input("\nQuery: ") raises: the except branch prints the error
InputFails ==
    /\ main_pc = "input"
    /\ \E e \in InputErrors :
        /\ printed' = Report(Raised(e))
        /\ main_pc' = AfterInputError(e)
    /\ UNCHANGED <<provider, loopVars, catalogVars, serverVars, session, opens,
                   closes, line, earlier>>

\* KeyboardInterrupt or cancellation inside chat_loop: except Exception does
\* not catch it, the frames of chat_loop and process_query are unwound
Interrupt ==
    /\ main_pc \in {"input", "query"}
    /\ main_pc' = "cleanup"
    /\ pc' = "idle"
    /\ max_iterations' = 0
    /\ iteration_count' = 0
    /\ messages' = <<>>
    /\ contents' = <<>>
    /\ assistant_message' = <<>>
    /\ tc_idx' = 0
    /\ fc_parts_response' = <<>>
    /\ outcome' = NoOutcome
    /\ model_calls' = 0
    /\ tool_requests' = 0
    /\ responses' = <<>>
    /\ exec_log' = <<>>
    /\ tools' = NoTools
    /\ requests' = <<>>
    /\ pending' = 0
    /\ list_requests' = 0
    /\ tools_result' = <<>>
    /\ UNCHANGED <<provider, catalogVars, serverVars, session, opens, closes, line,
                   printed, earlier>>

\* finally: await client.cleanup(), which closes what the exit stack holds
Cleanup ==
    /\ main_pc = "cleanup"
    /\ IF session = "open"
       THEN session' = "closed" /\ closes' = closes + 1
       ELSE UNCHANGED <<session, closes>>
    /\ main_pc' = "exited"
    /\ UNCHANGED <<provider, loopVars, catalogVars, serverVars, opens, line,
                   printed, earlier>>

\* the locals of process_query before it is called
NoQuery ==
    /\ pc = "idle"
    /\ max_iterations = 0
    /\ iteration_count = 0
    /\ messages = <<>>
    /\ contents = <<>>
    /\ assistant_message = <<>>
    /\ tc_idx = 0
    /\ fc_parts_response = <<>>
    /\ outcome = NoOutcome
    /\ model_calls = 0
    /\ tool_requests = 0
    /\ responses = <<>>
    /\ exec_log = <<>>
    /\ tools = NoTools
    /\ requests = <<>>
    /\ pending = 0
    /\ list_requests = 0
    /\ tools_result = <<>>
    /\ cat_pc = "idle"
    /\ inputSchema = NoSchema
    /\ parameters = NoSchema
    /\ line = <<>>
    /\ printed = NoPrint
    /\ earlier = "none"
    /\ srv_pc = "idle"
    /\ srv_call = NoCall
    /\ srv_result = NoResult
    /\ srv_calls = 0
    /\ mongo_open = 0

\* process_query called directly on a connected client
Init ==
    /\ provider \in {"openai", "gemini"}
    /\ NoQuery
    /\ main_pc = "direct"
    /\ session = "open"
    /\ opens = 1
    /\ closes = 0

Next ==
    \/ OA_Start
    \/ OA_ModelCall
    \/ OA_CallTool
    \/ OA_ExecTool
    \/ OA_FinalCall
    \/ G_Start
    \/ G_ModelCall
    \/ G_CallTool
    \/ G_ExecTool
    \/ G_FinalCall
    \/ ModelCallFails
    \/ GetToolsFails
    \/ Finish

Spec == Init /\ [][Next]_vars

\* get_mcp_tools alone, over the schemas a tool host may declare
NextCatalog ==
    \/ ListTools
    \/ G_GetMcpTools
    \/ OA_GetMcpTools
    \/ DropCatalog

SpecCatalog == Init /\ [][NextCatalog]_vars

\* the tool host alone, serving tool calls one after another
NextServer ==
    \/ Srv_Open
    \/ Srv_Fails
    \/ Srv_Succeeds

SpecServer == Init /\ [][NextServer]_vars

\* one run of main(): asyncio.run(main()) of either client
InitMain ==
    /\ provider \in {"openai", "gemini"}
    /\ NoQuery
    /\ main_pc = "main"
    /\ session = "none"
    /\ opens = 0
    /\ closes = 0

\* chat_loop calls process_query with max_iterations = 5; within MaxToolCalls
\* invocations the loop does not run out of iterations, so the call after the
\* loop is not among the steps of a session
NextMain ==
    \/ ConnectToServer
    \/ ReadLine
    \/ InputFails
    \/ Interrupt
    \/ Cleanup
    \/ OA_Start
    \/ OA_ModelCall
    \/ OA_CallTool
    \/ OA_ExecTool
    \/ G_Start
    \/ G_ModelCall
    \/ G_CallTool
    \/ G_ExecTool
    \/ ModelCallFails
    \/ GetToolsFails
    \/ Finish

SpecMain == InitMain /\ [][NextMain]_vars

\* ------------------------------------------------- what the claims speak of
\* the conversation of the running client
Transcript == IF provider = "openai" THEN messages ELSE contents

\* the invocations of the response being executed
RoundCalls ==
    IF provider = "openai" THEN assistant_message.tool_calls
    ELSE FunctionCalls(assistant_message)

\* the tool results of the round, one per entry of exec_log
RoundResults ==
    IF exec_log = <<>> THEN <<>>
    ELSE IF provider = "openai"
    THEN SubSeq(messages, Len(messages) - Len(exec_log) + 1, Len(messages))
    ELSE IF pc \in {"tools", "await"} THEN fc_parts_response
    ELSE Last(contents).parts

\* is_error of a tool result, as each conversation format can carry it
IsErrorResult(result) ==
    IF provider = "openai"
    THEN result.content # <<>> /\ Head(result.content) = "Error executing tool: "
    ELSE result.response.key = "error"

\* the text of a tool result
ResultText(result) ==
    IF provider = "openai" THEN result.content ELSE result.response.text

\* the result a successful reply with the same content blocks would give
SuccessResult(call, reply) ==
    IF provider = "openai"
    THEN OA_ToolMessage(call, ConcatBlocks(reply.content))
    ELSE G_FunctionResponse(call, [key |-> "result", text |-> ConcatBlocks(reply.content)])

\* the text of a response: message.content, or the text parts joined
ResponseText(response) ==
    IF response.role = "assistant" THEN response.content
    ELSE Flatten([i \in 1..Len(response.parts) |-> response.parts[i].text])

\* the step executed one invocation, and this is what happened to it
Executed(kind) ==
    /\ pc \in {"tools", "await"}
    /\ Len(exec_log') = Len(exec_log) + 1
    /\ exec_log' = Append(exec_log, Last(exec_log'))
    /\ Last(exec_log').outcome = kind

\* after executing an invocation the loop goes on: to the next invocation of
\* the response, or after the last one to the next iteration
GoesOn ==
    /\ outcome' = NoOutcome
    /\ IF tc_idx < Len(RoundCalls)
       THEN pc' = "tools" /\ tc_idx' = tc_idx + 1 /\ iteration_count' = iteration_count
       ELSE pc' = "loop" /\ iteration_count' = iteration_count + 1

\* no model call of the invocation has failed
NoModelFailure == Len(responses) = model_calls

\* C1: for max_iterations >= 0 one process_query makes at most
\* max_iterations + 1 model calls, whatever the model answers, in both loops
C1_ModelCallsBounded == max_iterations >= 0 => model_calls <= max_iterations + 1

C1_Witness ==
    /\ pc = "done"
    /\ max_iterations = MaxIter
    /\ model_calls = max_iterations + 1
    /\ \A i \in 1..max_iterations : Invocations(responses[i]) > 0

\* C2: when the model requested tools in each of its first max_iterations
\* responses and no model call failed, process_query ends by returning the
\* text of the final call's response
C2_ExhaustionReturnsAnswer ==
    (/\ pc = "done"
     /\ NoModelFailure
     /\ model_calls = max_iterations + 1
     /\ \A i \in 1..max_iterations : Invocations(responses[i]) > 0)
    => outcome = Returned(ResponseText(Last(responses)))

\* C3: when the first response of the loop requests no tool, exactly one model
\* call is made, no call_tool request is sent and the response's text is
\* returned unchanged
C3_FirstTextReturned ==
    (/\ max_iterations >= 1
     /\ Len(responses) >= 1
     /\ Invocations(responses[1]) = 0)
    => /\ pc = "done"
       /\ model_calls = 1
       /\ tool_requests = 0
       /\ outcome = Returned(ResponseText(responses[1]))

\* C4: when the first k < max_iterations responses request tools and response
\* k+1 is plain text T, process_query returns T after exactly k+1 model calls
C4_ScriptedTextReturned ==
    (/\ pc = "done"
     /\ NoModelFailure
     /\ model_calls >= 1
     /\ model_calls <= max_iterations
     /\ Invocations(Last(responses)) = 0)
    => /\ outcome = Returned(ResponseText(Last(responses)))
       /\ model_calls = iteration_count + 1
       /\ \A i \in 1..iteration_count : Invocations(responses[i]) > 0

\* C5: a reply of the tool host with its error flag set is appended as a tool
\* result marked as an error, different from the result of a successful reply
\* with the same text, and the loop goes on
C5_HostErrorFlagMarked ==
    [][Executed("flag") =>
        /\ IsErrorResult(Last(RoundResults'))
        /\ Last(RoundResults') # SuccessResult(RoundCalls[tc_idx], Last(exec_log').reply)
        /\ GoesOn]_vars

\* C6: an invocation whose textual argument payload is not JSON gets a tool
\* result marked as an error, no call_tool request is sent for it, nothing is
\* raised and the loop goes on
C6_BadJsonIsToolError ==
    [][(/\ pc = "tools"
        /\ (IF provider = "openai" THEN RoundCalls[tc_idx].arguments
            ELSE RoundCalls[tc_idx].args.text) \notin ValidJson)
       => /\ tool_requests' = tool_requests
          /\ Len(RoundResults') = Len(RoundResults) + 1
          /\ IsErrorResult(Last(RoundResults'))
          /\ GoesOn]_vars

C6_Witness ==
    /\ pc = "loop"
    /\ Len(exec_log) = 2
    /\ exec_log[1].outcome = "badjson"
    /\ exec_log[2].outcome = "ok"
    /\ IsErrorResult(RoundResults[1])

\* C7: a call_tool request that raises is caught: an error result carrying the
\* failure's message is appended for the invocation, the following invocations
\* of the response are executed and the loop goes on to the next model call
C7_RaisedToolCallCaught ==
    [][(Executed("raise") =>
            /\ IsErrorResult(Last(RoundResults'))
            /\ Len(RoundResults') = Len(RoundResults) + 1
            /\ ResultText(Last(RoundResults')) =
                  <<"Error executing tool: ">> \o Last(exec_log').reply.error
            /\ pending' = 0
            /\ GoesOn)
       /\ (pc \in {"tools", "await"} /\ pc' = "loop"
            => Len(exec_log') = Len(RoundCalls))]_vars

C7_Witness ==
    /\ pc = "loop"
    /\ Len(exec_log) = 2
    /\ exec_log[1].outcome = "raise"
    /\ exec_log[2].outcome = "ok"
    /\ ~IsErrorResult(RoundResults[2])

\* every tool call of every assistant message is answered by exactly one tool
\* message, carrying its id, and the answers follow the message in its order
OA_Resolved ==
    /\ \A i \in 1..Len(messages) : messages[i].role = "assistant" =>
        LET tcs == messages[i].tool_calls
        IN /\ i + Len(tcs) <= Len(messages)
           /\ \A j \in 1..Len(tcs) :
                /\ messages[i + j].role = "tool"
                /\ messages[i + j].tool_call_id = tcs[j].id
                /\ Cardinality({k \in 1..Len(messages) :
                        /\ messages[k].role = "tool"
                        /\ messages[k].tool_call_id = tcs[j].id}) = 1
    /\ Cardinality({k \in 1..Len(messages) : messages[k].role = "tool"})
          = Requested(responses)

\* every model turn is followed by one function turn that holds one response
\* per function call, carrying its name, in the order of the calls
G_Resolved ==
    /\ \A i \in 1..Len(contents) : contents[i].role = "model" =>
        LET fcs == FunctionCalls(contents[i])
        IN /\ i + 1 <= Len(contents)
           /\ contents[i + 1].role = "function"
           /\ Len(contents[i + 1].parts) = Len(fcs)
           /\ \A j \in 1..Len(fcs) :
                /\ contents[i + 1].parts[j].kind = "function_response"
                /\ contents[i + 1].parts[j].name = fcs[j].name
    /\ \A i \in 1..Len(contents) : contents[i].role = "function" =>
        i > 1 /\ contents[i - 1].role = "model"

\* C8: at every model call after the first, every tool invocation of every
\* earlier assistant turn has exactly one tool result in the transcript, tagged
\* with its id (OpenAI) or name (Gemini), in the order of the requests
C8_InvocationsResolved ==
    (pc = "loop" /\ model_calls >= 1) =>
        IF provider = "openai" THEN OA_Resolved ELSE G_Resolved

C8_Witness ==
    /\ pc = "loop"
    /\ provider = "openai"
    /\ model_calls = 2
    /\ Len(messages) = 6
    /\ messages[4].tool_call_id # messages[6].tool_call_id

\* C9: within one process_query the transcript only grows at its end: after
\* every step the earlier transcript is a prefix of the current one
C9_TranscriptAppendOnly ==
    [][(pc = "loop" \/ pc = "tools" \/ pc = "await")
            => IsPrefix(Transcript, Transcript')]_vars

C9_Witness ==
    /\ pc = "done"
    /\ provider = "gemini"
    /\ Len(contents) = 5

\* the schema nodes of a schema: the schema itself, the schemas of its
\* properties, of its items and of the branches of its unions, at every depth
RECURSIVE Nodes(_)
Nodes(schema) ==
    IF schema.t # "dict" THEN {}
    ELSE {schema} \cup UNION {
        LET key == schema.items[i].key
            value == schema.items[i].val
        IN IF key = "properties" /\ value.t = "dict"
           THEN UNION {Nodes(value.items[j].val) : j \in 1..Len(value.items)}
           ELSE IF key = "items" THEN Nodes(value)
           ELSE IF key \in AnyOfKeys /\ value.t = "list"
           THEN UNION {Nodes(value.elems[j]) : j \in 1..Len(value.elems)}
           ELSE {} : i \in 1..Len(schema.items)}

\* the keys the spec has the normalization remove below the top level
RemovedKeys == {"additional_properties", "additionalProperties", "examples",
                "any_of", "anyOf"}

\* C10 as claimed: every node of the schema handed to the model, at every
\* depth, has only keys of the whitelist, in both clients
C10_AllNodesWhitelisted ==
    cat_pc = "built" => \A n \in Nodes(parameters) : Keys(n) \subseteq TopLevelKeys

\* C10 as the code has it: the Gemini client keeps only whitelisted keys at the
\* top level of the schema and leaves none of the keys it skips or resolves
\* (additional_properties, additionalProperties, examples, any_of, anyOf) in
\* any node at any depth; the OpenAI client hands inputSchema on unchanged
C10_TopLevelWhitelisted ==
    cat_pc = "built" =>
        IF provider = "gemini"
        THEN /\ Keys(parameters) \subseteq TopLevelKeys
             /\ \A n \in Nodes(parameters) : Keys(n) \cap RemovedKeys = {}
        ELSE parameters = inputSchema

C10_Witness ==
    /\ cat_pc = "built"
    /\ provider = "gemini"
    /\ "$schema" \in Keys(inputSchema)
    /\ \E n \in Nodes(inputSchema) : "additionalProperties" \in Keys(n)
    /\ \E n \in Nodes(inputSchema) : "anyOf" \in Keys(n)
    /\ \E n \in Nodes(parameters) : "items" \in Keys(n)

\* the parameters a schema declares: its "properties" mapping
Properties(schema) ==
    IF schema.t = "dict" /\ "properties" \in Keys(schema)
          /\ ValueOf(schema, "properties").t = "dict"
    THEN ValueOf(schema, "properties")
    ELSE Dict(<<>>)

\* a node without one of its keys
WithoutKey(node, key) == Dict(SelectSeq(node.items, LAMBDA it : it.key # key))

\* node m carries every item of node d
Carries(m, d) ==
    \A i \in 1..Len(d.items) :
        /\ d.items[i].key \in Keys(m)
        /\ ValueOf(m, d.items[i].key) = d.items[i].val

\* C11: a parameter schema with a nullable union is normalized to the cleaned
\* first non-null branch of the union together with the node's other
\* supported fields (title, description, default), cleaned; the null branch
\* is gone; when the union has no non-null branch the node only loses the
\* union key
C11_NullableUnionSubstituted ==
    (cat_pc = "built" /\ provider = "gemini") =>
        \A p \in Keys(Properties(inputSchema)) \cap Keys(Properties(parameters)) :
            LET n == ValueOf(Properties(inputSchema), p)
                m == ValueOf(Properties(parameters), p)
            IN \A u \in Keys(n) \cap AnyOfKeys :
                LET opts == Options(ValueOf(n, u))
                    k == FirstNonNull(opts)
                    rest == clean_schema_recursive(WithoutKey(n, u))
                IN IF k # 0
                   THEN /\ Carries(m, clean_schema_recursive(opts[k]))
                        /\ Carries(m, WithoutKey(rest, "type"))
                        /\ Keys(m) \cap AnyOfKeys = {}
                   ELSE m = rest

\* C12: every model call of process_query, the call after the loop included,
\* passes the fixed system instruction and temperature = 0, in both loops
C12_InstructionAndTemperature ==
    \A i \in 1..Len(requests) :
        /\ requests[i].system.set
        /\ requests[i].system.value = <<"SYSTEM">>
        /\ requests[i].temperature.set
        /\ requests[i].temperature.value = 0

\* the step is the end of a process_query call: its result goes to the caller
QueryEnds == pc = "done" /\ pc' = "idle" /\ outcome' = outcome

\* C13: a model call that fails ends process_query at once with that failure
\* (no further model call, no answer in its place); chat_loop prints the
\* failure for this query and goes back to reading a line, with the session
\* to the tool host still open and nothing left of the failed query
C13_ModelFailureReported ==
    [][/\ (main_pc = "query" /\ model_calls' = model_calls + 1
              /\ Len(responses') = Len(responses))
           => /\ pc' = "done"
              /\ outcome' = Raised(<<"ProviderCallError">>)
              /\ main_pc' = "query"
       /\ (main_pc = "query" /\ QueryEnds /\ outcome = Raised(<<"ProviderCallError">>))
           => /\ printed' = [kind |-> "error",
                             text |-> <<"Error: ", "ProviderCallError">>]
              /\ main_pc' = "input"
              /\ session' = "open"
              /\ Transcript' = <<>>
              /\ model_calls' = 0]_vars

C13_Witness ==
    /\ earlier = "raised"
    /\ main_pc = "query"
    /\ pc = "done"
    /\ outcome.kind = "returned"
    /\ session = "open"

\* the line is quit, in any letter case, between leading and trailing
\* whitespace
IsQuitLine(l) ==
    \E i \in 0..Len(l) :
        /\ i + 4 <= Len(l)
        /\ \A k \in 1..i : l[k] \in {" ", "\t"}
        /\ \A k \in (i + 5)..Len(l) : l[k] \in {" ", "\t"}
        /\ l[i + 1] \in {"q", "Q"}
        /\ l[i + 2] \in {"u", "U"}
        /\ l[i + 3] \in {"i", "I"}
        /\ l[i + 4] \in {"t", "T"}

\* C14: when the line chat_loop reads is quit (whitespace around it trimmed,
\* letter case ignored) the loop ends: Goodbye is printed, control goes to
\* the shutdown of main, and for that line no model call is made, no catalog
\* is fetched and no call_tool request is sent
C14_QuitEndsLoop ==
    [][/\ (main_pc = "input" /\ IsQuitLine(line'))
           => /\ main_pc' = "cleanup"
              /\ printed'.kind = "goodbye"
              /\ pc' = "idle"
              /\ model_calls' = 0
              /\ list_requests' = 0
              /\ tool_requests' = 0
              /\ requests' = <<>>
       /\ (main_pc \in {"cleanup", "exited"})
           => /\ main_pc' \in {"cleanup", "exited"}
              /\ model_calls' = 0
              /\ list_requests' = 0
              /\ tool_requests' = 0]_vars

C14_Witness ==
    /\ main_pc = "exited"
    /\ line = <<" ", "Q", "u", "i", "T", "\t">>
    /\ printed.kind = "goodbye"
    /\ earlier = "returned"
    /\ model_calls = 0

\* the line without its leading and trailing whitespace
Trimmed(l) ==
    CHOOSE t \in {SubSeq(l, i, j) : i \in 1..(Len(l) + 1), j \in 0..Len(l)} :
        /\ \E a, b \in SeqsUpTo({" ", "\t"}, Len(l)) : l = a \o t \o b
        /\ t # <<>> => Head(t) \notin {" ", "\t"} /\ Last(t) \notin {" ", "\t"}

\* the conversation a query starts with in each client
InitialConversation(query) ==
    IF provider = "openai"
    THEN <<[role |-> "system", content |-> <<"SYSTEM">>],
           [role |-> "user", content |-> query]>>
    ELSE <<[role |-> "user",
            parts |-> <<[kind |-> "text", text |-> query, name |-> "",
                         args |-> <<>>]>>]>>

\* C15: a line other than quit starts one process_query call, whose
\* conversation begins as the query of that line alone (after the fixed system
\* message in the OpenAI client), whatever queries the session has seen
\* before; when the call ends chat_loop is back at reading a line, so a
\* second call needs a second line
C15_FreshConversationPerLine ==
    [][/\ (/\ main_pc = "input"
           /\ main_pc' # "cleanup"
           /\ printed'.kind # "error")
           => /\ ~IsQuitLine(line')
              /\ main_pc' = "query"
              /\ pc' = "idle"
              /\ Transcript' = <<>>
       /\ (main_pc = "input" /\ line' # line /\ ~IsQuitLine(line'))
           => main_pc' = "query"
       /\ (pc = "idle" /\ pc' = "loop")
           => /\ main_pc = "query"
              /\ Transcript' = InitialConversation(Trimmed(line))
       /\ (main_pc = "query" /\ QueryEnds) => main_pc' = "input"
       /\ (main_pc = "query" /\ pc # "idle") => line' = line]_vars

C15_Witness ==
    /\ earlier = "returned"
    /\ main_pc = "query"
    /\ pc = "loop"
    /\ line = <<" ", "q", " ">>
    /\ provider = "openai"
    /\ model_calls = 1
    /\ Len(messages) = 4

\* C16: when list_tools fails at the start of process_query the call ends
\* with that error before any model call or call_tool request; every catalog
\* a model call presents is the complete list of the host's tools; chat_loop
\* prints the error and goes back to reading a line
C16_CatalogFailureReported ==
    [][/\ (list_requests' = list_requests + 1 /\ tools' = <<>>)
           => /\ pc' = "done"
              /\ outcome' = Raised(<<"ListToolsError">>)
              /\ model_calls' = 0
              /\ tool_requests' = 0
              /\ requests' = <<>>
       /\ \A i \in 1..Len(requests') :
            requests'[i].tools.set =>
                \E listed \in HostCatalogs :
                    /\ Len(requests'[i].tools.value) = Len(listed)
                    /\ \A k \in 1..Len(listed) :
                            requests'[i].tools.value[k].name = listed[k]
       /\ (main_pc = "query" /\ QueryEnds /\ outcome = Raised(<<"ListToolsError">>))
           => /\ printed' = [kind |-> "error", text |-> <<"Error: ", "ListToolsError">>]
              /\ main_pc' = "input"
              /\ session' = session]_vars

C16_Witness ==
    /\ earlier = "raised"
    /\ printed = [kind |-> "error", text |-> <<"Error: ", "ListToolsError">>]
    /\ main_pc = "input"
    /\ session = "open"

\* C17: in one run of main the session to the tool host is opened at most
\* once, and when main has ended a session that was opened has been closed
\* exactly once, by the cleanup every way out of main passes through;
\* chat_loop and process_query leave the session as it is, and every
\* list_tools and call_tool request of a query is sent on the open session
C17_SessionOpenedOnceClosedOnce ==
    [][/\ opens' <= 1
       /\ closes' <= opens'
       /\ (session' = "open") = (opens' = 1 /\ closes' = 0)
       /\ main_pc' = "exited" => closes' = opens' /\ session' # "open"
       /\ (main_pc' = "exited" /\ main_pc # "exited") => main_pc = "cleanup"
       /\ main_pc \in {"input", "query"}
            => session' = session /\ opens' = opens /\ closes' = closes
       /\ (list_requests' = list_requests + 1 \/ tool_requests' = tool_requests + 1)
            => session = "open" /\ session' = "open"]_vars

C17_Witness ==
    /\ main_pc = "exited"
    /\ session = "closed"
    /\ opens = 1
    /\ closes = 1
    /\ line = <<>>

\* C19: the model calls made inside the loop (the first max_iterations ones)
\* present the catalog of the query; the call after the loop is the only one
\* that presents no tools; once the loop has run out of iterations the next
\* step ends process_query, and no call_tool request follows it, whatever the
\* response of the forced call holds
C19_OnlyForcedCallWithoutTools ==
    [][/\ \A i \in 1..Len(requests') :
            /\ requests'[i].tools.set = (i <= max_iterations')
            /\ requests'[i].tools.set =>
                    requests'[i].tools.value = tools' /\ tools' # <<>>
            /\ ~requests'[i].tools.set => requests'[i].tool_choice # "auto"
       /\ (pc = "loop" /\ iteration_count >= max_iterations)
            => /\ pc' = "done"
               /\ tool_requests' = tool_requests
               /\ pending' = 0
               /\ exec_log' = exec_log
       /\ pc = "done"
            => /\ pc' = "idle"
               /\ tool_requests' = 0
               /\ pending' = 0]_vars

C19_Witness ==
    /\ pc = "done"
    /\ provider = "openai"
    /\ max_iterations = 1
    /\ model_calls = 2
    /\ tool_requests = 1
    /\ Invocations(responses[2]) = 1
    /\ outcome.kind = "returned"
    /\ requests[1].tools.set
    /\ ~requests[2].tools.set

\* C20: the invocations of a response are executed one at a time in the
\* order of the response: a call_tool request is sent only when none is in
\* flight and the invocations before it have their results, at most one
\* request is ever in flight, and no model call is made while one is
C20_ToolCallsSequential ==
    [][/\ pending' \in {0, 1}
       /\ (pending' = 1) = (pc' = "await")
       /\ tool_requests' = tool_requests + 1
            => /\ pending = 0
               /\ tc_idx = Len(exec_log) + 1
               /\ tc_idx' = tc_idx
       /\ Len(exec_log') = Len(exec_log) + 1
            => /\ tc_idx = Len(exec_log) + 1
               /\ tc_idx' = IF tc_idx < Len(RoundCalls) THEN tc_idx + 1 ELSE 0
       /\ model_calls' = model_calls + 1 => pending = 0 /\ pending' = 0]_vars

C20_Witness ==
    /\ pc = "await"
    /\ pending = 1
    /\ tc_idx = 2
    /\ Len(exec_log) = 1
    /\ exec_log[1].sent
    /\ tool_requests = 2

\* the classes an exception raised by a tool is an instance of
ClassesOf(exc) ==
    IF \E e \in MongoErrors : e.exc = exc
    THEN (CHOOSE e \in MongoErrors : e.exc = exc).isa
    ELSE {exc}

\* C18: execute_mongodb_query and get_users_by_city raise a
\* pymongo.errors.ConnectionFailure when the connection to MongoDB fails and
\* a pymongo.errors.OperationFailure when the query operation fails, and for
\* any other error an exception that is neither
C18_FailureKindRaised ==
    (srv_result.kind = "raised" /\ Guarded(srv_call.tool)) =>
        /\ ("ConnectionFailure" \in ClassesOf(srv_result.exc))
              = ("ConnectionFailure" \in srv_result.cause.isa)
        /\ ("OperationFailure" \in ClassesOf(srv_result.exc))
              = ("OperationFailure" \in srv_result.cause.isa)

\* C21: a process_query call fetches the catalog once, as its first step and
\* before any model call; while the call runs the catalog is neither fetched
\* again nor changed, and every model call that presents tools presents the
\* tools list_tools returned to this very call; when the call ends the
\* catalog is dropped, so the next query fetches its own
C21_CatalogFetchedOncePerQuery ==
    [][/\ (pc = "idle" /\ pc' # "idle")
           => /\ list_requests = 0
              /\ list_requests' = 1
              /\ model_calls' = 0
       /\ (pc # "idle" /\ pc' # "idle")
           => /\ list_requests' = list_requests
              /\ tools' = tools
              /\ tools_result' = tools_result
       /\ model_calls' = model_calls + 1 => list_requests = 1
       /\ \A i \in 1..Len(requests') :
            requests'[i].tools.set =>
                /\ tools_result' # <<>>
                /\ Len(requests'[i].tools.value) = Len(tools_result')
                /\ \A k \in 1..Len(tools_result') :
                        requests'[i].tools.value[k].name = tools_result'[k]
       /\ (pc # "idle" /\ pc' = "idle")
           => /\ tools' = <<>>
              /\ tools_result' = <<>>
              /\ list_requests' = 0]_vars

C21_Witness ==
    /\ main_pc = "query"
    /\ earlier = "returned"
    /\ pc = "done"
    /\ provider = "openai"
    /\ model_calls = 2
    /\ list_requests = 1
    /\ tools_result = <<"execute_mongodb_query">>
    /\ requests[1].tools.set
    /\ requests[2].tools = requests[1].tools

\* the names a schema lists as required
RequiredNames(schema) ==
    IF schema.t = "dict" /\ "required" \in Keys(schema)
          /\ ValueOf(schema, "required").t = "list"
    THEN {ValueOf(schema, "required").elems[i].v :
            i \in 1..Len(ValueOf(schema, "required").elems)}
    ELSE {}

\* C22: the Gemini normalization keeps every declared parameter: each name
\* of the raw properties mapping is a key of the normalized properties
\* mapping, whatever the parameter is called, and every name of the
\* normalized required list is a key of the normalized properties
C22_DeclaredParametersKept ==
    (cat_pc = "built" /\ provider = "gemini") =>
        /\ Keys(Properties(inputSchema)) \subseteq Keys(Properties(parameters))
        /\ RequiredNames(parameters) \subseteq Keys(Properties(parameters))

\* C23: chat_loop is left by its own control flow only when the line read is
\* quit: an Exception raised in a turn, by input() or by process_query, is
\* printed and the loop is back at reading a line with the session as it
\* was, however often that happens; the one other way out is an interrupt,
\* which is no Exception and unwinds chat_loop without printing
C23_LoopEndsOnlyOnQuit ==
    [][/\ (main_pc \in {"input", "query"} /\ main_pc' \notin {"input", "query"})
           => /\ main_pc' = "cleanup"
              /\ \/ /\ main_pc = "input"
                    /\ IsQuitLine(line')
                    /\ printed'.kind = "goodbye"
                 \/ /\ printed' = printed
                    /\ line' = line
                    /\ outcome' = NoOutcome
       /\ (main_pc = "input" /\ main_pc' = "query") => ~IsQuitLine(line')
       /\ (main_pc = "input" /\ printed'.kind = "error" /\ main_pc' # "cleanup")
           => /\ main_pc' = "input"
              /\ printed'.text \in {<<"Error: ", "EOFError">>,
                                    <<"Error: ", "UnicodeDecodeError">>}
              /\ line' = line
              /\ session' = session
              /\ pc' = "idle"
              /\ model_calls' = 0
       /\ (main_pc = "query" /\ QueryEnds)
           => /\ main_pc' = "input"
              /\ outcome.kind = "raised" => printed'.kind = "error"]_vars

C23_Witness ==
    /\ main_pc = "input"
    /\ printed = [kind |-> "error", text |-> <<"Error: ", "EOFError">>]
    /\ earlier = "raised"
    /\ line = <<"q">>
    /\ session = "open"

\* the model calls issued so far that present tools
ToolEnabledCalls(reqs) == Len(SelectSeq(reqs, LAMBDA r : r.tools.set))

\* the model calls issued so far that present no tools
ForcedCalls(reqs) == Len(SelectSeq(reqs, LAMBDA r : ~r.tools.set))

\* the responses to tool-enabled calls whose invocations have all been
\* executed
CompletedRounds(rs, reqs, at) ==
    Cardinality({i \in 1..Len(rs) : reqs[i].tools.set /\ Invocations(rs[i]) > 0})
        - (IF at \in {"tools", "await"} THEN 1 ELSE 0)

\* C24: iteration_count is the number of completed rounds of tool execution;
\* at most max_iterations model calls present tools (none when
\* max_iterations <= 0, where no call_tool request is sent either and the
\* first model call is the forced one); at most one forced call is made, and
\* only when the loop made max_iterations calls that were all answered with
\* tool requests whose rounds are complete
C24_IterationCounterAndBudget ==
    [][/\ iteration_count' = CompletedRounds(responses', requests', pc')
       /\ ToolEnabledCalls(requests')
            <= (IF max_iterations' >= 0 THEN max_iterations' ELSE 0)
       /\ ForcedCalls(requests') <= 1
       /\ (pc' # "idle" /\ max_iterations' <= 0)
            => /\ ToolEnabledCalls(requests') = 0
               /\ tool_requests' = 0
               /\ iteration_count' = 0
               /\ pc' \in {"loop", "done"}
       /\ (ForcedCalls(requests') = ForcedCalls(requests) + 1)
            => /\ pc = "loop"
               /\ pc' = "done"
               /\ ToolEnabledCalls(requests) = (IF max_iterations >= 0
                                                THEN max_iterations ELSE 0)
               /\ Len(responses) = ToolEnabledCalls(requests)
               /\ \A i \in 1..Len(responses) : Invocations(responses[i]) > 0
               /\ iteration_count = Len(responses)]_vars

C24_Witness ==
    /\ pc = "done"
    /\ max_iterations = 2
    /\ iteration_count = 2
    /\ ToolEnabledCalls(requests) = 2
    /\ ForcedCalls(requests) = 1
    /\ exec_log # <<>>
    /\ exec_log[1].outcome = "raise"

\* C24 for max_iterations <= 0: the first step after the start is the forced
\* call
C24_WitnessNoIterations ==
    /\ pc = "done"
    /\ max_iterations = -1
    /\ model_calls = 1
    /\ ToolEnabledCalls(requests) = 0
    /\ ForcedCalls(requests) = 1
    /\ outcome.kind = "returned"

\* C25: every tool that opens a MongoDB client closes it before the tool
\* call ends, on the success path and on every error path: between tool
\* calls no MongoDB client is open
C25_ClientsClosed == srv_pc = "idle" => mongo_open = 0

\* out has the shape of in (the lists' lengths and order, the dictionaries'
\* keys), every ObjectId of in is its string form in out, every other leaf
\* is the same
RECURSIVE ConvertedFrom(_, _)
ConvertedFrom(out, in) ==
    IF in.t = "list"
    THEN /\ out.t = "list"
         /\ Len(out.elems) = Len(in.elems)
         /\ \A i \in 1..Len(in.elems) : ConvertedFrom(out.elems[i], in.elems[i])
    ELSE IF in.t = "dict"
    THEN /\ out.t = "dict"
         /\ Len(out.items) = Len(in.items)
         /\ \A i \in 1..Len(in.items) :
                /\ out.items[i].key = in.items[i].key
                /\ ConvertedFrom(out.items[i].val, in.items[i].val)
    ELSE IF in.t = "oid" THEN out = [t |-> "leaf", v |-> in.v]
    ELSE out = in

\* some value inside obj, at any depth, is an ObjectId
RECURSIVE HasObjectId(_)
HasObjectId(obj) ==
    IF obj.t = "list" THEN \E i \in 1..Len(obj.elems) : HasObjectId(obj.elems[i])
    ELSE IF obj.t = "dict"
    THEN \E i \in 1..Len(obj.items) : HasObjectId(obj.items[i].val)
    ELSE obj.t = "oid"

\* C26: what a document tool returns is convert_objectids of what the cursor
\* yielded: the same shape, with every ObjectId at any depth of lists and
\* dictionaries replaced by its string form and every other leaf unchanged;
\* it holds no ObjectId, and convert_objectids leaves it as it is
C26_ObjectIdsConverted ==
    (/\ srv_result.kind = "returned"
     /\ srv_call.tool \in {"get_mongodb_sample_documents", "execute_mongodb_query",
                           "get_users_by_city"})
    => /\ ConvertedFrom(srv_result.value, srv_result.results)
       /\ ~HasObjectId(srv_result.value)
       /\ convert_objectids(srv_result.value) = srv_result.value

C26_Witness ==
    /\ srv_result.kind = "returned"
    /\ srv_call.tool = "execute_mongodb_query"
    /\ Len(srv_result.results.elems) = 2
    /\ "refs" \in Keys(srv_result.results.elems[1])
    /\ "address" \in Keys(srv_result.results.elems[2])
    /\ HasObjectId(ValueOf(srv_result.results.elems[2], "address"))
    /\ srv_result.value # srv_result.results

====
